---- MODULE Spec2Model ----
(***************************************************************************)
(* Model of the two utilities of sundry-scripts:                           *)
(*   mortgage.py       - the payoff calculator (main, parse, calculate)    *)
(*   pnt_downloader.py - the weekly episode downloader (main)              *)
(* Money is decimal.Decimal in the source; the arithmetic below is the     *)
(* decimal module's: every operation returns the exact result rounded to   *)
(* Prec significant digits, ties to even.                                  *)
(***************************************************************************)
EXTENDS Integers, Sequences, FiniteSets, TLC

\* ------------------------------------------------------------------------
\* Natural numbers as digit sequences, most significant digit first
\* ------------------------------------------------------------------------

\* precision of the default decimal context (getcontext().prec)
Prec == 28

Max2(a, b) == IF a >= b THEN a ELSE b

Min2(a, b) == IF a <= b THEN a ELSE b

Zeros(n) == [i \in 1..n |-> 0]

\* Op applied to the value of v, and to the values of v and w: the operand is
\* evaluated once, whatever use Op makes of it
On(v, Op(_)) == CHOOSE r \in {Op(x) : x \in {v}} : TRUE

On2(v, w, Op(_, _)) == CHOOSE r \in {Op(p[1], p[2]) : p \in {<<v, w>>}} : TRUE

StripLeadOf(d) ==
  IF \A i \in 1..Len(d) : d[i] = 0 THEN <<>>
  ELSE LET f == CHOOSE i \in 1..Len(d) : d[i] # 0 /\ \A j \in 1..(i - 1) : d[j] = 0
       IN  SubSeq(d, f, Len(d))

\* the sequence without its leading zero digits
StripLead(d) == On(d, StripLeadOf)

TrailZerosOf(d) ==
  CHOOSE t \in 0..(Len(d) - 1) :
    d[Len(d) - t] # 0 /\ \A j \in 1..t : d[Len(d) + 1 - j] = 0

\* number of trailing zero digits of a sequence that is not all zeros
TrailZeros(d) == On(d, TrailZerosOf)

\* k-th digit from the right, 0 beyond the length
DigitAt(a, k) == IF k <= Len(a) THEN a[Len(a) + 1 - k] ELSE 0

RECURSIVE NatDigits(_)
NatDigits(n) == IF n = 0 THEN <<>> ELSE Append(NatDigits(n \div 10), n % 10)

RECURSIVE DigitsToNat(_)
DigitsToNat(d) ==
  IF d = <<>> THEN 0 ELSE 10 * DigitsToNat(SubSeq(d, 1, Len(d) - 1)) + d[Len(d)]

ReverseOf(d) == [i \in 1..Len(d) |-> d[Len(d) + 1 - i]]

Reverse(d) == On(d, ReverseOf)

\* digits lo..hi (counted from the right) of a + b + carry, least significant
\* first, and the carry out; the range is halved and its low half is taken
\* first, so that the evaluation stays shallow
RECURSIVE AddRange(_, _, _, _, _)
AddRange(a, b, lo, hi, carry) ==
  IF lo = hi
  THEN On(DigitAt(a, lo) + DigitAt(b, lo) + carry,
          LAMBDA t : [d |-> <<t % 10>>, c |-> t \div 10])
  ELSE On(AddRange(a, b, lo, (lo + hi) \div 2, carry), LAMBDA low :
       On(AddRange(a, b, (lo + hi) \div 2 + 1, hi, low.c), LAMBDA high :
          [d |-> low.d \o high.d, c |-> high.c]))

AddOf(a, b) == StripLead(Reverse(AddRange(a, b, 1, Max2(Len(a), Len(b)) + 1, 0).d))

AddN(a, b) == On2(a, b, AddOf)

RECURSIVE SubRange(_, _, _, _, _)
SubRange(a, b, lo, hi, borrow) ==
  IF lo = hi
  THEN On(DigitAt(a, lo) - DigitAt(b, lo) - borrow,
          LAMBDA t : [d |-> <<IF t < 0 THEN t + 10 ELSE t>>, c |-> IF t < 0 THEN 1 ELSE 0])
  ELSE On(SubRange(a, b, lo, (lo + hi) \div 2, borrow), LAMBDA low :
       On(SubRange(a, b, (lo + hi) \div 2 + 1, hi, low.c), LAMBDA high :
          [d |-> low.d \o high.d, c |-> high.c]))

SubOf(a, b) == StripLead(Reverse(SubRange(a, b, 1, Len(a), 0).d))

\* a - b for a >= b, a nonzero
SubN(a, b) == On2(a, b, SubOf)

CmpOf(a, b) ==
  IF Len(a) < Len(b) THEN -1
  ELSE IF Len(a) > Len(b) THEN 1
  ELSE IF a = b THEN 0
  ELSE LET i == CHOOSE i \in 1..Len(a) : a[i] # b[i] /\ \A j \in 1..(i - 1) : a[j] = b[j]
       IN  IF a[i] < b[i] THEN -1 ELSE 1

\* -1, 0, 1 for two sequences without leading zeros
CmpN(a, b) == On2(a, b, CmpOf)

\* digits lo..hi (from the right) of a * m + carry for a small natural m,
\* least significant first
RECURSIVE MulRange(_, _, _, _, _)
MulRange(a, m, lo, hi, carry) ==
  IF lo = hi
  THEN On(DigitAt(a, lo) * m + carry,
          LAMBDA t : [d |-> <<t % 10>>, c |-> t \div 10])
  ELSE On(MulRange(a, m, lo, (lo + hi) \div 2, carry), LAMBDA low :
       On(MulRange(a, m, (lo + hi) \div 2 + 1, hi, low.c), LAMBDA high :
          [d |-> low.d \o high.d, c |-> high.c]))

MulSmallOf(a, m) ==
  IF a = <<>> \/ m = 0 THEN <<>>
  ELSE On(MulRange(a, m, 1, Len(a), 0),
          LAMBDA r : StripLead(NatDigits(r.c) \o Reverse(r.d)))

MulSmall(a, m) == On2(a, m, MulSmallOf)

RECURSIVE MulOf(_, _)
MulOf(a, b) ==
  IF Len(b) <= 6 THEN MulSmall(a, DigitsToNat(b))
  ELSE AddN(On2(a, SubSeq(b, 1, Len(b) \div 2), MulOf) \o Zeros(Len(b) - Len(b) \div 2),
            On2(a, StripLead(SubSeq(b, Len(b) \div 2 + 1, Len(b))), MulOf))

MulN(a, b) == On2(a, b, MulOf)

\* long division of digits lo..hi (from the left) of a by a small positive
\* integer k, entered with remainder rem: the quotient digits and the remainder
RECURSIVE DivRange(_, _, _, _, _)
DivRange(a, k, lo, hi, rem) ==
  IF lo = hi
  THEN On(rem * 10 + a[lo], LAMBDA cur : [q |-> <<cur \div k>>, r |-> cur % k])
  ELSE On(DivRange(a, k, lo, (lo + hi) \div 2, rem), LAMBDA left :
       On(DivRange(a, k, (lo + hi) \div 2 + 1, hi, left.r), LAMBDA right :
          [q |-> left.q \o right.q, r |-> right.r]))

DivSmallOf(a, k) == DivRange(a, k, 1, Len(a), 0)

\* quotient digits and remainder of a nonempty digit sequence by k
DivSmall(a, k) == On2(a, k, DivSmallOf)

\* ------------------------------------------------------------------------
\* decimal.Decimal: value s * c * 10^e, kept canonical (no leading or
\* trailing zero digits, zero is the empty coefficient)
\* ------------------------------------------------------------------------

DecZero == [s |-> 1, c |-> <<>>, e |-> 0]

Canon(s, c0, e) ==
  On(StripLead(c0), LAMBDA c :
     IF c = <<>> THEN DecZero
     ELSE On(TrailZeros(c), LAMBDA t :
             [s |-> s, c |-> SubSeq(c, 1, Len(c) - t), e |-> e + t]))

\* whether the digits after the first Prec of c round the kept digits up,
\* ROUND_HALF_EVEN; sticky says that a nonzero remainder lies below c
RoundsUp(c, sticky) ==
  \/ c[Prec + 1] > 5
  \/ /\ c[Prec + 1] = 5
     /\ \/ sticky
        \/ \E i \in (Prec + 2)..Len(c) : c[i] # 0
        \/ c[Prec] % 2 = 1

\* Decimal._fix: round to Prec significant digits
Fix(s, c0, e, sticky) ==
  On(StripLead(c0), LAMBDA c :
     IF Len(c) <= Prec THEN Canon(s, c, e)
     ELSE Canon(s,
                IF RoundsUp(c, sticky) THEN AddN(SubSeq(c, 1, Prec), <<1>>)
                ELSE SubSeq(c, 1, Prec),
                e + Len(c) - Prec))

\* Decimal(n) for a Python int
DecOfInt(n) ==
  IF n < 0 THEN Canon(-1, NatDigits(-n), 0) ELSE Canon(1, NatDigits(n), 0)

Sign(x) == On(x, LAMBDA v : IF v.c = <<>> THEN 0 ELSE v.s)

NegOf(x) == IF x.c = <<>> THEN x ELSE [x EXCEPT !.s = -x.s]

Neg(x) == On(x, NegOf)

\* the sum of two nonzero decimals whose coefficients a and b are brought to
\* the common exponent e
AlignedSum(x, y, a, b, e) ==
  IF x.s = y.s THEN Canon(x.s, AddN(a, b), e)
  ELSE On(CmpN(a, b), LAMBDA cmp :
          IF cmp = 0 THEN DecZero
          ELSE IF cmp > 0 THEN Canon(x.s, SubN(a, b), e)
          ELSE Canon(y.s, SubN(b, a), e))

ExactAddOf(x, y) ==
  IF x.c = <<>> THEN y
  ELSE IF y.c = <<>> THEN x
  ELSE On2(x.c \o Zeros(x.e - Min2(x.e, y.e)), y.c \o Zeros(y.e - Min2(x.e, y.e)),
           LAMBDA a, b : AlignedSum(x, y, a, b, Min2(x.e, y.e)))

\* the exact sum, not rounded
ExactAdd(x, y) == On2(x, y, ExactAddOf)

ExactSub(x, y) == ExactAdd(x, Neg(y))

\* Decimal.__add__
Add(x, y) == On(ExactAdd(x, y), LAMBDA r : Fix(r.s, r.c, r.e, FALSE))

\* Decimal.__sub__
Sub(x, y) == Add(x, Neg(y))

\* Decimal.__mul__
Mul(x, y) == On2(x, y, LAMBDA v, w : Fix(v.s * w.s, MulN(v.c, w.c), v.e + w.e, FALSE))

DivIntOf(x, k) ==
  IF x.c = <<>> THEN DecZero
  ELSE On(DivSmall(x.c \o Zeros(Prec + 1 + Len(NatDigits(k))), k), LAMBDA d :
          Fix(x.s, d.q, x.e - (Prec + 1 + Len(NatDigits(k))), d.r # 0))

\* Decimal.__truediv__ by a positive Python int k
DivInt(x, k) == On2(x, k, DivIntOf)

\* Decimal.__gt__, __ge__
Gt(x, y) == Sign(ExactSub(x, y)) = 1

Ge(x, y) == Sign(ExactSub(x, y)) >= 0

\* ------------------------------------------------------------------------
\* mortgage.py: the command line
\* ------------------------------------------------------------------------

VARIABLES pc, args, balance, payment, rate, extra_payments, periodic_payments,
          month_counter, count, totals, interest_payment, principal_payment, principal_extra,
          extra_after_initial, extra_before_clip

mvars == <<pc, args, balance, payment, rate, extra_payments, periodic_payments,
           month_counter, count, totals, interest_payment, principal_payment, principal_extra,
           extra_after_initial, extra_before_clip>>

\* largest --balance, in whole currency units
MaxBalance == 5

\* largest whole --payment
MaxPayment == 1

\* most tokens given to --extra-payments, and to --periodic-payments
MaxExtra == 2

MaxPeriodic == 2

\* months from the month the program is run in to the end of the calendar
MaxMonths == 8

\* datetime.MAXYEAR, the last year a date holds
MAXYEAR == 9999

\* start.year * 12 + start.month - 1 for date.today(), taken MaxMonths months
\* before the end of year MAXYEAR
StartCounter == MAXYEAR * 12 + 12 - MaxMonths

\* an amount of n hundredths
Cents(n) == Canon(1, NatDigits(n), -2)

BalanceArgs == {DecOfInt(b) : b \in 1..MaxBalance}

PaymentArgs == {Cents(1)} \cup {DecOfInt(p) : p \in 1..MaxPayment}

\* --rate, in percent
RateArgs == {DecOfInt(0), DecOfInt(1), DecOfInt(12)}

\* X:###.## tokens, one character per element
ExtraTokens == { <<"1", ":", "1">>, <<"2", ":", "3">>, <<"0", ":", "2">> }

PeriodicTokens == { <<"0", ":", "3">>, <<"3", ":", "3">>,
                    <<"1", ":", "0", ".", "5", "0">>, <<"2", "-", "3">> }

SeqsUpTo(S, n) == UNION { [1..k -> S] : k \in 0..n }

IsDigit(ch) == ch \in {"0", "1", "2", "3", "4", "5", "6", "7", "8", "9"}

DigitVal(ch) ==
  CASE ch = "0" -> 0 [] ch = "1" -> 1 [] ch = "2" -> 2 [] ch = "3" -> 3
    [] ch = "4" -> 4 [] ch = "5" -> 5 [] ch = "6" -> 6 [] ch = "7" -> 7
    [] ch = "8" -> 8 [] ch = "9" -> 9

\* index of the last character of the longest run of digits that starts at
\* i, or i - 1 when there is none: the greedy \d+
DigitsEnd(s, i) ==
  LET J == {j \in i..Len(s) : \A k \in i..j : IsDigit(s[k])}
  IN  IF J = {} THEN i - 1 ELSE CHOOSE j \in J : \A k \in J : k <= j

DigitsOf(s, i, j) == [k \in 1..(j - i + 1) |-> DigitVal(s[i + k - 1])]

\* re.match(r"(\d+):(\d+(?:\.\d{2})?)", value): anchored at the start only;
\* n is int(group(1)), amount is Decimal(group(2))
Match(s) ==
  LET e1   == DigitsEnd(s, 1)
      e2   == DigitsEnd(s, e1 + 2)
      frac == /\ e2 + 3 <= Len(s)
              /\ s[e2 + 1] = "."
              /\ IsDigit(s[e2 + 2])
              /\ IsDigit(s[e2 + 3])
  IN  IF /\ e1 >= 1
         /\ e1 + 1 <= Len(s)
         /\ s[e1 + 1] = ":"
         /\ e2 >= e1 + 2
      THEN [ok |-> TRUE,
            n |-> DigitsToNat(DigitsOf(s, 1, e1)),
            amount |-> IF frac
                       THEN Canon(1, DigitsOf(s, e1 + 2, e2) \o DigitsOf(s, e2 + 2, e2 + 3), -2)
                       ELSE Canon(1, DigitsOf(s, e1 + 2, e2), 0)]
      ELSE [ok |-> FALSE, n |-> 0, amount |-> DecZero]

\* ExtraPayment.parse, for a token that matches
ExtraPayment_parse(value) ==
  [count |-> Match(value).n, amount |-> Match(value).amount]

\* PeriodicPayment.parse, for a token that matches
PeriodicPayment_parse(value) ==
  [period |-> Match(value).n, payment |-> Match(value).amount]

\* ------------------------------------------------------------------------
\* mortgage.py: calculate
\* ------------------------------------------------------------------------

Remove(seq, i) == SubSeq(seq, 1, i - 1) \o SubSeq(seq, i + 1, Len(seq))

\* interest_payment = balance * rate / 12
InterestOf(bal, r) == DivInt(Mul(bal, r), 12)

\* principal_payment = payment - interest_payment
PrincipalOf(pay, interest) == Sub(pay, interest)

\* the loop over range(len(extra_payments)), entered at index idx (from 1)
\* with n the length taken when the loop started; err is the IndexError of
\* extra_payments[idx] past the end of the shortened list
RECURSIVE ExtraLoop(_, _, _, _)
ExtraLoop(eps, idx, n, extra) ==
  IF idx > n THEN [eps |-> eps, extra |-> extra, err |-> FALSE]
  ELSE IF idx > Len(eps) THEN [eps |-> eps, extra |-> extra, err |-> TRUE]
  ELSE IF eps[idx].count < 1 THEN ExtraLoop(Remove(eps, idx), idx + 1, n, extra)
  ELSE LET left == eps[idx].count - 1
           sum  == Add(extra, eps[idx].amount)
       IN  IF left = 0
           THEN ExtraLoop(Remove(eps, idx), idx + 1, n, sum)
           ELSE ExtraLoop([eps EXCEPT ![idx].count = left], idx + 1, n, sum)

\* the test on a month index that starts at 0
PeriodicDueFromZero(cnt, period) == (cnt - 1) % period = 0

\* the test of the loop over periodic_payments: count % period == 0
PeriodicDue(cnt, period) == cnt % period = 0

\* the loop over periodic_payments, entered at index i; err is the
\* ZeroDivisionError of count % 0
RECURSIVE PeriodicLoop(_, _, _, _)
PeriodicLoop(pps, i, cnt, extra) ==
  IF i > Len(pps) THEN [extra |-> extra, err |-> FALSE]
  ELSE IF pps[i].period = 0 THEN [extra |-> extra, err |-> TRUE]
  ELSE IF PeriodicDue(cnt, pps[i].period)
       THEN PeriodicLoop(pps, i + 1, cnt, Add(extra, pps[i].payment))
       ELSE PeriodicLoop(pps, i + 1, cnt, extra)

\* the two branches that keep the payment within the balance
Clip(pp, pe, bal) ==
  IF Gt(pp, bal) THEN [pp |-> bal, pe |-> DecZero]
  ELSE IF Gt(Add(pp, pe), bal) THEN [pp |-> pp, pe |-> Sub(bal, pp)]
  ELSE [pp |-> pp, pe |-> pe]

MInit ==
  /\ pc = "main"
  /\ args \in [balance : BalanceArgs, payment : PaymentArgs, rate : RateArgs,
               extra_payments : SeqsUpTo(ExtraTokens, MaxExtra),
               periodic_payments : SeqsUpTo(PeriodicTokens, MaxPeriodic)]
  /\ balance = DecZero
  /\ payment = DecZero
  /\ rate = DecZero
  /\ extra_payments = <<>>
  /\ periodic_payments = <<>>
  /\ month_counter = 0
  /\ count = 0
  /\ totals = [interest |-> DecZero, payments |-> DecZero]
  /\ interest_payment = DecZero
  /\ principal_payment = DecZero
  /\ principal_extra = DecZero
  /\ extra_after_initial = DecZero
  /\ extra_before_clip = DecZero

ArgsParse ==
  /\ \A i \in 1..Len(args.extra_payments) : Match(args.extra_payments[i]).ok
  /\ \A i \in 1..Len(args.periodic_payments) : Match(args.periodic_payments[i]).ok

\* parser.parse_args() rejects the command line: a parse raised ValueError
MainUsageError ==
  /\ pc = "main"
  /\ ~ArgsParse
  /\ pc' = "usage_error"
  /\ UNCHANGED <<args, balance, payment, rate, extra_payments, periodic_payments,
                 month_counter, count, totals, interest_payment,
                 principal_payment, principal_extra, extra_after_initial,
                 extra_before_clip>>

\* main() calls calculate(args.balance, args.payment, args.rate / 100, ...),
\* which runs up to the first test of the while loop; iter_months starts at
\* the month of date.today()
MainCalculate ==
  /\ pc = "main"
  /\ ArgsParse
  /\ pc' = "loop"
  /\ balance' = args.balance
  /\ payment' = args.payment
  /\ rate' = DivInt(args.rate, 100)
  /\ extra_payments' = [i \in 1..Len(args.extra_payments) |->
                          ExtraPayment_parse(args.extra_payments[i])]
  /\ periodic_payments' = [i \in 1..Len(args.periodic_payments) |->
                             PeriodicPayment_parse(args.periodic_payments[i])]
  /\ month_counter' = StartCounter
  /\ UNCHANGED <<args, count, totals, interest_payment, principal_payment,
                 principal_extra, extra_after_initial, extra_before_clip>>

\* iter_months: date(year, month + 1, 1) for year, month = divmod(month_counter, 12)
\* raises ValueError when the year is past MAXYEAR
MonthInRange(counter) == counter \div 12 <= MAXYEAR

\* a pass of the while loop that dies in next(months): the calendar is over
NextMonthRaises ==
  /\ pc = "loop"
  /\ Gt(balance, DecZero)
  /\ ~MonthInRange(month_counter)
  /\ pc' = "ValueError"
  /\ UNCHANGED <<args, balance, payment, rate, extra_payments, periodic_payments,
                 month_counter, count, totals, interest_payment,
                 principal_payment, principal_extra, extra_after_initial,
                 extra_before_clip>>

\* one pass of the while loop body
Month ==
  /\ pc = "loop"
  /\ Gt(balance, DecZero)
  /\ MonthInRange(month_counter)
  /\ month_counter' = month_counter + 1
  /\ \E ip \in {InterestOf(balance, rate)} :
     \E pp \in {PrincipalOf(payment, ip)} :
     \E el \in {ExtraLoop(extra_payments, 1, Len(extra_payments), DecZero)} :
     \E pl \in {PeriodicLoop(periodic_payments, 1, count + 1, el.extra)} :
     \E cl \in {Clip(pp, pl.extra, balance)} :
       /\ count' = count + 1
       /\ interest_payment' = ip
       /\ totals' = [totals EXCEPT !.interest = Add(@, ip),
                                   !.payments = IF el.err \/ pl.err THEN @
                                                ELSE Add(@, Add(Add(ip, cl.pp), cl.pe))]
       /\ extra_payments' = el.eps
       /\ extra_after_initial' = el.extra
       /\ extra_before_clip' = IF el.err THEN el.extra ELSE pl.extra
       /\ IF el.err
          THEN /\ pc' = "IndexError"
               /\ principal_payment' = pp
               /\ principal_extra' = el.extra
               /\ UNCHANGED balance
          ELSE IF pl.err
          THEN /\ pc' = "ZeroDivisionError"
               /\ principal_payment' = pp
               /\ principal_extra' = pl.extra
               /\ UNCHANGED balance
          ELSE /\ pc' = "loop"
               /\ principal_payment' = cl.pp
               /\ principal_extra' = cl.pe
               /\ balance' = Sub(balance, Add(cl.pp, cl.pe))
  /\ UNCHANGED <<args, payment, rate, periodic_payments>>

\* the while test fails and the summary is printed
Finish ==
  /\ pc = "loop"
  /\ ~Gt(balance, DecZero)
  /\ pc' = "done"
  /\ UNCHANGED <<args, balance, payment, rate, extra_payments, periodic_payments,
                 month_counter, count, totals, interest_payment,
                 principal_payment, principal_extra, extra_after_initial,
                 extra_before_clip>>

MNext == MainUsageError \/ MainCalculate \/ NextMonthRaises \/ Month \/ Finish

\* ------------------------------------------------------------------------
\* pnt_downloader.py: dates
\* ------------------------------------------------------------------------

\* Day of week that episodes are dated: Monday = 0, Sunday = 6
EPISODE_DAY == 5

IsLeap(y) == y % 4 = 0 /\ (y % 100 # 0 \/ y % 400 = 0)

DaysInMonth(y, m) ==
  IF m = 2 THEN (IF IsLeap(y) THEN 29 ELSE 28)
  ELSE IF m \in {4, 6, 9, 11} THEN 30 ELSE 31

\* days before January 1st of year y
DaysBeforeYear(y) ==
  (y - 1) * 365 + (y - 1) \div 4 - (y - 1) \div 100 + (y - 1) \div 400

RECURSIVE DaysBeforeMonth(_, _)
DaysBeforeMonth(y, m) ==
  IF m = 1 THEN 0 ELSE DaysBeforeMonth(y, m - 1) + DaysInMonth(y, m - 1)

\* date.toordinal()
ToOrdinal(dt) == DaysBeforeYear(dt.year) + DaysBeforeMonth(dt.year, dt.month) + dt.day

\* date.fromordinal(n)
FromOrdinal(n) ==
  LET y == CHOOSE yy \in ((n - 1) \div 366 + 1)..((n - 1) \div 365 + 1) :
             DaysBeforeYear(yy) < n /\ n <= DaysBeforeYear(yy + 1)
      r == n - DaysBeforeYear(y)
      m == CHOOSE mm \in 1..12 :
             DaysBeforeMonth(y, mm) < r /\ r <= DaysBeforeMonth(y, mm) + DaysInMonth(y, mm)
  IN  [year |-> y, month |-> m, day |-> r - DaysBeforeMonth(y, m)]

\* date + timedelta(days=n)
AddDays(dt, n) == FromOrdinal(ToOrdinal(dt) + n)

\* date.weekday()
Weekday(dt) == (ToOrdinal(dt) + 6) % 7

DigitChar(d) ==
  CASE d = 0 -> "0" [] d = 1 -> "1" [] d = 2 -> "2" [] d = 3 -> "3" [] d = 4 -> "4"
    [] d = 5 -> "5" [] d = 6 -> "6" [] d = 7 -> "7" [] d = 8 -> "8" [] d = 9 -> "9"

\* the decimal digits of n, zero-padded to width w, as characters
Padded(n, w) ==
  LET d == NatDigits(n)
      p == Zeros(w - Len(d)) \o d
  IN  [i \in 1..Len(p) |-> DigitChar(p[i])]

\* str(date): YYYY-MM-DD
DateStr(dt) == Padded(dt.year, 4) \o <<"-">> \o Padded(dt.month, 2) \o <<"-">> \o Padded(dt.day, 2)

\* datetime.strptime(s, "%Y-%m-%d").date(), for the strings DateStr writes
StrpDate(str) ==
  [year  |-> DigitsToNat(DigitsOf(str, 1, 4)),
   month |-> DigitsToNat(DigitsOf(str, 6, 7)),
   day   |-> DigitsToNat(DigitsOf(str, 9, 10))]

\* the first day on or after dt that is an EPISODE_DAY
RECURSIVE NextEpisodeDay(_)
NextEpisodeDay(dt) ==
  IF Weekday(dt) = EPISODE_DAY THEN dt ELSE NextEpisodeDay(AddDays(dt, 1))

\* the while test: (processing.year, processing.month) <= (today.year, today.month)
ThroughMonth(p, t) == p.year < t.year \/ (p.year = t.year /\ p.month <= t.month)

\* ------------------------------------------------------------------------
\* pnt_downloader.py: main, run again and again on one folder
\* ------------------------------------------------------------------------

VARIABLES clock, settings_file, audio_files, dpc, settings, starting_date,
          processing, today, exit_status, last_written, last_requested,
          first_starting

dvars == <<clock, settings_file, audio_files, dpc, settings, starting_date,
           processing, today, exit_status, last_written, last_requested,
           first_starting>>

\* the day of the first run
FirstDay == [year |-> 2024, month |-> 12, day |-> 30]

\* days the calendar advances in the model
MaxDays == 3

NoDate == [year |-> 0, month |-> 0, day |-> 0]

HasDownloaded(dict) == \E p \in dict : p[1] = "downloaded"

Downloaded(dict) == (CHOOSE p \in dict : p[1] = "downloaded")[2]

DInit ==
  /\ clock = ToOrdinal(FirstDay)
  /\ settings_file = [exists |-> FALSE, data |-> {}]
  /\ audio_files = {}
  /\ dpc = "idle"
  /\ settings = {}
  /\ starting_date = NoDate
  /\ processing = NoDate
  /\ today = NoDate
  /\ exit_status = "none"
  /\ last_written = NoDate
  /\ last_requested = NoDate
  /\ first_starting = NoDate

\* the calendar moves on between two runs
Tick ==
  /\ dpc = "idle"
  /\ clock < ToOrdinal(FirstDay) + MaxDays
  /\ clock' = clock + 1
  /\ UNCHANGED <<settings_file, audio_files, dpc, settings, starting_date,
                 processing, today, exit_status, last_written, last_requested,
                 first_starting>>

\* a resume at the persisted date itself
StartingDateSameDay(dict, t) ==
  IF HasDownloaded(dict)
  THEN StrpDate(Downloaded(dict))
  ELSE NextEpisodeDay([t EXCEPT !.day = 1])

\* starting_date of a run that loaded the dictionary dict on the day t
StartingDate(dict, t) ==
  IF HasDownloaded(dict)
  THEN AddDays(StrpDate(Downloaded(dict)), 7)
  ELSE NextEpisodeDay([t EXCEPT !.day = 1])

\* a run starts: the settings are loaded and the starting date is computed;
\* midnight may pass between the two calls of date.today()
Start ==
  /\ dpc = "idle"
  /\ \E t \in {clock, Min2(clock + 1, ToOrdinal(FirstDay) + MaxDays)} :
       /\ clock' = t
       /\ today' = FromOrdinal(t)
  /\ settings' = IF settings_file.exists THEN settings_file.data ELSE {}
  /\ starting_date' = StartingDate(settings', FromOrdinal(clock))
  /\ processing' = starting_date'
  /\ first_starting' = IF exit_status = "none" THEN starting_date' ELSE first_starting
  /\ dpc' = "fetch"
  /\ exit_status' = "running"
  /\ UNCHANGED <<settings_file, audio_files, last_written, last_requested>>

\* the request succeeds: the episode is written and the loop goes on
GetOk ==
  /\ dpc = "fetch"
  /\ ThroughMonth(processing, today)
  /\ last_requested' = processing
  /\ audio_files' = audio_files \cup {processing}
  /\ last_written' = processing
  /\ settings' = {p \in settings : p[1] # "downloaded"}
                   \cup {<<"downloaded", DateStr(processing)>>}
  /\ processing' = AddDays(processing, 7)
  /\ UNCHANGED <<clock, settings_file, dpc, starting_date, today, exit_status,
                 first_starting>>

\* json.dump(settings, f) and the return of main
SaveAndExit ==
  /\ settings_file' = [exists |-> TRUE, data |-> settings]
  /\ dpc' = "idle"
  /\ exit_status' = "saved"

\* the response is not ok: break, then the settings are saved
GetNotOk ==
  /\ dpc = "fetch"
  /\ ThroughMonth(processing, today)
  /\ last_requested' = processing
  /\ SaveAndExit
  /\ UNCHANGED <<clock, audio_files, settings, starting_date, processing, today,
                 last_written, first_starting>>

\* requests.get raises (no connection): the run dies before the save
GetRaises ==
  /\ dpc = "fetch"
  /\ ThroughMonth(processing, today)
  /\ last_requested' = processing
  /\ dpc' = "idle"
  /\ exit_status' = "crashed"
  /\ UNCHANGED <<clock, settings_file, audio_files, settings, starting_date,
                 processing, today, last_written, first_starting>>

\* the while test fails: the month is complete, the settings are saved
MonthComplete ==
  /\ dpc = "fetch"
  /\ ~ThroughMonth(processing, today)
  /\ SaveAndExit
  /\ UNCHANGED <<clock, audio_files, settings, starting_date, processing, today,
                 last_written, last_requested, first_starting>>

DNext == Tick \/ Start \/ GetOk \/ GetNotOk \/ GetRaises \/ MonthComplete

\* ------------------------------------------------------------------------
\* specifications
\* ------------------------------------------------------------------------

vars == <<mvars, dvars>>

\* the calculator, started once on a command line
Init == MInit /\ DInit

Next == MNext /\ UNCHANGED dvars

Spec == Init /\ [][Next]_vars

\* the calculator, every step of which is eventually taken
FairSpec == Spec /\ WF_vars(Next)

\* the downloader, run any number of times
DownloaderInit ==
  /\ DInit
  /\ MInit
  /\ args = [balance |-> DecOfInt(1), payment |-> DecOfInt(1), rate |-> DecZero,
             extra_payments |-> <<>>, periodic_payments |-> <<>>]

DownloaderNext == DNext /\ UNCHANGED mvars

DownloaderSpec == DownloaderInit /\ [][DownloaderNext]_vars

\* ------------------------------------------------------------------------
\* properties of the calculator
\* ------------------------------------------------------------------------

\* the rules the command line gives, as parsed
ExtraRules ==
  [i \in 1..Len(args.extra_payments) |-> ExtraPayment_parse(args.extra_payments[i])]

PeriodicRules ==
  [i \in 1..Len(args.periodic_payments) |-> PeriodicPayment_parse(args.periodic_payments[i])]

RECURSIVE DecSum(_)
DecSum(seq) ==
  IF seq = <<>> THEN DecZero
  ELSE ExactAdd(DecSum(SubSeq(seq, 1, Len(seq) - 1)), seq[Len(seq)])

\* payment > balance * rate / 12 on the command line
Covered == Gt(args.payment, InterestOf(args.balance, DivInt(args.rate, 100)))

\* C1: from a command line with payment > balance*rate/12 the monthly loop
\* ends, and when it has ended the balance is exactly 0
C1_PayoffAtZero == (pc = "done" /\ Covered) => Sign(balance) = 0

\* no rules at all and a payment that does not exceed the first interest:
\* the balance can never go down
NonConvergent ==
  /\ pc = "main"
  /\ args.extra_payments = <<>>
  /\ args.periodic_payments = <<>>
  /\ ~Covered

\* C2: a run whose payment cannot exceed the monthly interest eventually
\* stops, paid off or in the NonConvergentLoan error state
C2_NonConvergenceDetected == NonConvergent => <>(pc \in {"done", "NonConvergentLoan"})

\* what the front-loaded rules of the command line owe in month m
FrontLoadedDue(m) ==
  DecSum([i \in 1..Len(ExtraRules) |->
            IF ExtraRules[i].count >= m THEN ExtraRules[i].amount ELSE DecZero])

\* C3: with every count >= 1, each front-loaded rule (c, a) adds a in each of
\* the first c months and in no later month, no rule is skipped and the run
\* is not aborted when a rule is removed
C3_FrontLoaded ==
  (/\ pc \notin {"main", "usage_error"}
   /\ \A i \in 1..Len(ExtraRules) : ExtraRules[i].count >= 1)
  => /\ pc # "IndexError"
     /\ count >= 1 => extra_after_initial = FrontLoadedDue(count)

\* C4: in every month principal plus extra principal applied is at most the
\* balance before the month, and the balance is never negative
C4_WithinBalance ==
  [][(pc = "loop" /\ pc' = "loop")
       => /\ Ge(balance, Add(principal_payment', principal_extra'))
          /\ Sign(balance') >= 0]_vars

\* C5: for balance > 0, payment > 0, rate >= 0 the balance after a month is
\* at most the balance before it
C5_Monotone == [][pc = "loop" => Ge(balance, balance')]_vars

\* C6: after every month the total paid is the interest total plus the
\* principal paid so far, the original balance minus the balance
C6_Conservation ==
  pc \in {"loop", "done"}
  => totals.payments = ExactAdd(totals.interest, ExactSub(args.balance, balance))

\* what the periodic rules owe in month m: the rules with k * period = m
PeriodicOwed(m) ==
  DecSum([i \in 1..Len(PeriodicRules) |->
            IF \E k \in 1..m : k * PeriodicRules[i].period = m
            THEN PeriodicRules[i].payment ELSE DecZero])

\* C7: in every month whose extra principal was computed, the periodic rules
\* have added exactly the amounts of the rules whose period divides the
\* 1-based month index, whatever other rules there are
C7_Periodic ==
  (pc \in {"loop", "done"} /\ count >= 1)
  => ExactSub(extra_before_clip, extra_after_initial) = PeriodicOwed(count)

\* month 6 of a loan with a rule of period 3 next to front-loaded rules
C7_Witness ==
  /\ pc \in {"loop", "done"}
  /\ count = 6
  /\ \E i \in 1..Len(periodic_payments) : periodic_payments[i].period = 3
  /\ args.extra_payments # <<>>
  /\ Sign(ExactSub(extra_before_clip, extra_after_initial)) = 1

\* C10: every periodic rule handed to calculate has a period >= 1, and
\* count % period never fails inside the loop
C10_PositivePeriod ==
  pc \notin {"main", "usage_error"}
  => /\ \A i \in 1..Len(periodic_payments) : periodic_payments[i].period >= 1
     /\ pc # "ZeroDivisionError"

\* ------------------------------------------------------------------------
\* properties of the downloader
\* ------------------------------------------------------------------------

\* C8: after a run that saved its settings, the persisted "downloaded" date
\* is the date of the last episode written by this or any earlier run, and
\* there is no entry when nothing was ever written
C8_PersistedIsLastWritten ==
  (dpc = "idle" /\ exit_status = "saved")
  => IF last_written = NoDate
     THEN ~HasDownloaded(settings_file.data)
     ELSE /\ HasDownloaded(settings_file.data)
          /\ Downloaded(settings_file.data) = DateStr(last_written)

LastOfMonth(dt) == [dt EXCEPT !.day = DaysInMonth(dt.year, dt.month)]

\* a run resumes 7 days after the persisted date
ResumesAfterPersisted ==
  (dpc = "fetch" /\ HasDownloaded(settings_file.data))
  => DateStr(FromOrdinal(ToOrdinal(starting_date) - 7)) = Downloaded(settings_file.data)

\* nothing later than the current calendar month is requested
WithinCurrentMonth ==
  last_requested # NoDate
  => ToOrdinal(last_requested) <= ToOrdinal(LastOfMonth(FromOrdinal(clock)))

\* the dates from, from + 7, ... before upto are all on disk, and upto is one of
\* these 7-day steps
WeeklyFrom(from, upto) ==
  LET diff == ToOrdinal(upto) - ToOrdinal(from)
  IN  /\ diff >= 0
      /\ diff % 7 = 0
      /\ \A j \in 0..(diff \div 7 - 1) : FromOrdinal(ToOrdinal(from) + 7 * j) \in audio_files

\* C9 as stated: runs resume 7 days after the persisted date, the dates on
\* disk are the 7-day steps from the first run's starting date without a gap,
\* and nothing beyond the current month is requested
C9_GapFreeFromFirstRun ==
  /\ ResumesAfterPersisted
  /\ \A d \in audio_files : WeeklyFrom(first_starting, d)
  /\ WithinCurrentMonth

\* C9 amended: a run that finds a persisted date starts 7 days after it and
\* any other run at the first EPISODE_DAY of the month; the dates a run has
\* written are the 7-day steps from its own starting date without a gap; and
\* nothing beyond the current month is requested
C9_GapFreeWithinRun ==
  /\ ResumesAfterPersisted
  /\ (dpc = "fetch" /\ ~HasDownloaded(settings_file.data))
       => /\ Weekday(starting_date) = EPISODE_DAY
          /\ starting_date.day <= 7
  /\ dpc = "fetch" => WeeklyFrom(starting_date, processing)
  /\ WithinCurrentMonth

\* a run that resumed in the new year and has written an episode
C9_Witness ==
  /\ dpc = "fetch"
  /\ HasDownloaded(settings_file.data)
  /\ starting_date.year = FirstDay.year + 1
  /\ ToOrdinal(processing) >= ToOrdinal(starting_date) + 7

====
